---------------------------- MODULE Spec2Model ----------------------------
(***************************************************************************)
(* QRCodePay: the content classifier (src/utils/qrDataParser.ts), the      *)
(* result renderer (src/components/ResultDisplay.tsx), the scanner         *)
(* (src/components/QRScanner.tsx) and the home screen                      *)
(* (src/app/(tabs)/index.tsx).                                             *)
(*                                                                         *)
(* A text is a sequence of one-character strings.  A value that may be     *)
(* null/undefined is a sequence of length 0 (absent) or 1 (present).       *)
(***************************************************************************)
EXTENDS Naturals, Sequences, FiniteSets, TLC

VARIABLES
    input,          \* the text whose calls of parseQRContent are observed
    outcome,        \* what the first call on input produced
    pc,             \* classifier harness: "ready" before the call, "done" after;
                    \* application: "app" before a call on input, "called"
                    \* after the first, "recalled" after a later one
    variant,        \* which QRScanner of QRScanner.tsx is built
    homeScannedData,\* HomeScreen: scannedData (ParsedQRData | null)
    hasPermission,  \* QRScanner: hasPermission (boolean | null)
    permRequest,    \* QRScanner: a requestCameraPermissionsAsync awaiting its answer
    osGranted,      \* the platform's camera permission
    scannedData,    \* QRScanner (cooldown): scannedData (string | null)
    isScanning,     \* QRScanner (cooldown): isScanning
    scanCooldown,   \* QRScanner (cooldown): scanCooldown
    scanned,        \* QRScanner (simple): scanned
    feedback,       \* texts of handleBarCodeScanned calls suspended at the await
    timers,         \* number of pending 1000 ms cooldown timers
    lastParsed,     \* history: the text of the latest parseQRContent call
    lastOutcome,    \* history: what the latest parseQRContent call produced
    opened,         \* the URL of the latest Linking.openURL call, if any
    platform,       \* Platform.OS
    downloading,    \* APKHandler: downloading
    inFlight,       \* the pending FileSystem.downloadAsync: "own" while its
                    \* APKHandler is mounted, "orphan" once it is not, else "none"
    downloadResult, \* how the latest downloadAsync settled, if it has
    dialog,         \* the title or message of the latest Alert.alert
    cart,           \* CartContext: the products added, by serial number
    uncaught        \* "handler" / "render" once an exception of parseQRContent
                    \* left a handler or a render uncaught, "none" before

vars == <<input, outcome, pc, variant, homeScannedData, hasPermission,
          permRequest, osGranted, scannedData, isScanning, scanCooldown,
          scanned, feedback, timers, lastParsed, lastOutcome, opened,
          platform, downloading, inFlight, downloadResult, dialog, cart,
          uncaught>>

apkVars == <<platform, downloading, inFlight, downloadResult, dialog>>

classifyVars == <<input, outcome, pc>>

appVars == <<variant, homeScannedData, hasPermission, permRequest, osGranted,
             scannedData, isScanning, scanCooldown, scanned, feedback,
             timers, lastParsed, lastOutcome, opened, apkVars, cart, uncaught>>

-----------------------------------------------------------------------------
(* Bounds *)

\* texts of the classifier harness are concatenations of at most MaxTokens tokens
MaxTokens == 3

\* at most MaxTimers cooldown timers are pending at one time
MaxTimers == 2

\* at most MaxCart products are added to the cart
MaxCart == 2

-----------------------------------------------------------------------------
(* Optional values *)

None == <<>>

Some(x) == <<x>>

-----------------------------------------------------------------------------
(* Characters *)

UpperCase ==
    <<"A", "B", "C", "D", "E", "F", "G", "H", "I", "J", "K", "L", "M",
      "N", "O", "P", "Q", "R", "S", "T", "U", "V", "W", "X", "Y", "Z">>

LowerCase ==
    <<"a", "b", "c", "d", "e", "f", "g", "h", "i", "j", "k", "l", "m",
      "n", "o", "p", "q", "r", "s", "t", "u", "v", "w", "x", "y", "z">>

Range(s) == {s[i] : i \in 1..Len(s)}

\* \d of the phone pattern
Digit == {"0", "1", "2", "3", "4", "5", "6", "7", "8", "9"}

\* \s of the phone pattern (the ASCII members of the class)
WhiteSpace == {" ", "\t", "\n", "\r", "\f"}

AsciiAlpha == Range(UpperCase) \cup Range(LowerCase)

toLowerCaseChar(c) ==
    IF c \in Range(UpperCase)
    THEN LowerCase[CHOOSE i \in 1..Len(UpperCase) : UpperCase[i] = c]
    ELSE c

toLowerCase(s) == [i \in 1..Len(s) |-> toLowerCaseChar(s[i])]

-----------------------------------------------------------------------------
(* String.prototype operations used by the sources *)

startsWith(s, p) == Len(s) >= Len(p) /\ SubSeq(s, 1, Len(p)) = p

includes(s, p) ==
    \E i \in 1..(Len(s) + 1) :
        i + Len(p) - 1 <= Len(s) /\ SubSeq(s, i, i + Len(p) - 1) = p

\* s.substring(n)
substring(s, n) == SubSeq(s, n + 1, Len(s))

\* index of the first character of s in set, Len(s)+1 when there is none
IndexOfAny(s, set) ==
    IF \E i \in 1..Len(s) : s[i] \in set
    THEN CHOOSE i \in 1..Len(s) :
            s[i] \in set /\ \A j \in 1..(i - 1) : s[j] \notin set
    ELSE Len(s) + 1

\* s.split(sep) for a one-character separator
RECURSIVE split(_, _)
split(s, sep) ==
    LET i == IndexOfAny(s, {sep})
    IN  IF i > Len(s) THEN <<s>>
        ELSE <<SubSeq(s, 1, i - 1)>> \o split(SubSeq(s, i + 1, Len(s)), sep)

\* parts.join(sep)
RECURSIVE join(_, _)
join(parts, sep) ==
    IF Len(parts) = 0 THEN <<>>
    ELSE IF Len(parts) = 1 THEN parts[1]
    ELSE parts[1] \o <<sep>> \o join(Tail(parts), sep)

\* arr.slice(1)
slice1(arr) == IF Len(arr) = 0 THEN <<>> ELSE Tail(arr)

\* mutant: a missing field defaults to the empty string
findField_orEmpty(arr, p) ==
    IF \E i \in 1..Len(arr) : startsWith(arr[i], p)
    THEN LET i == CHOOSE k \in 1..Len(arr) :
                    /\ startsWith(arr[k], p)
                    /\ \A j \in 1..(k - 1) : ~startsWith(arr[j], p)
         IN  Some(substring(arr[i], Len(p)))
    ELSE Some(<<>>)

\* arr.find(item => item.startsWith(p))?.substring(Len(p))
findField(arr, p) ==
    IF \E i \in 1..Len(arr) : startsWith(arr[i], p)
    THEN LET i == CHOOSE k \in 1..Len(arr) :
                    /\ startsWith(arr[k], p)
                    /\ \A j \in 1..(k - 1) : ~startsWith(arr[j], p)
         IN  Some(substring(arr[i], Len(p)))
    ELSE None

\* s.trim()
RECURSIVE trimStart(_)
trimStart(s) ==
    IF Len(s) > 0 /\ s[1] \in WhiteSpace THEN trimStart(Tail(s)) ELSE s

RECURSIVE trimEnd(_)
trimEnd(s) ==
    IF Len(s) > 0 /\ s[Len(s)] \in WhiteSpace
    THEN trimEnd(SubSeq(s, 1, Len(s) - 1))
    ELSE s

trim(s) == trimEnd(trimStart(s))

-----------------------------------------------------------------------------
(* new URL(data).hostname: the URL parser run on a text with no base URL.   *)
(* The result is [failure |-> TRUE] when the constructor throws, and        *)
(* [failure |-> FALSE, hostname |-> h] otherwise.                           *)

SchemeChars == AsciiAlpha \cup Digit \cup {"+", "-", "."}

\* schemes whose URLs must have a non-empty host that is a valid domain
SpecialSchemes ==
    { <<"h", "t", "t", "p">>, <<"h", "t", "t", "p", "s">>, <<"f", "t", "p">>,
      <<"w", "s">>, <<"w", "s", "s">> }

\* code points no host may contain
ForbiddenHostChars ==
    {" ", "\t", "\n", "\r", "#", "/", ":", "<", ">", "?", "@", "[", "\\", "]",
     "^", "|"}

\* code points no domain (the host of a special scheme) may contain
ForbiddenDomainChars == ForbiddenHostChars \cup {"%", "\f"}

\* leading and trailing C0 controls and spaces are stripped, then every tab
\* and newline is removed
urlPreprocess(s) ==
    SelectSeq(trim(s), LAMBDA c : c \notin {"\t", "\n", "\r"})

\* position of the ":" ending a valid scheme, 0 when the text has no scheme
schemeEnd(s) ==
    LET i == IndexOfAny(s, {":"})
    IN  IF /\ i <= Len(s)
           /\ i > 1
           /\ s[1] \in AsciiAlpha
           /\ \A j \in 2..(i - 1) : s[j] \in SchemeChars
        THEN i
        ELSE 0

RECURSIVE skipSlashes(_)
skipSlashes(s) ==
    IF Len(s) > 0 /\ s[1] \in {"/", "\\"} THEN skipSlashes(Tail(s)) ELSE s

\* the authority: up to the first "/", "\", "?" or "#"
authorityOf(s, special) ==
    SubSeq(s, 1, IndexOfAny(s, IF special THEN {"/", "\\", "?", "#"}
                                          ELSE {"/", "?", "#"}) - 1)

\* host and port of an authority: what follows the last "@"
RECURSIVE afterCredentials(_)
afterCredentials(a) ==
    LET i == IndexOfAny(a, {"@"})
    IN  IF i > Len(a) THEN a ELSE afterCredentials(SubSeq(a, i + 1, Len(a)))

hostOf(a) ==
    LET hp == afterCredentials(a) IN SubSeq(hp, 1, IndexOfAny(hp, {":"}) - 1)

portOf(a) ==
    LET hp == afterCredentials(a)
        i  == IndexOfAny(hp, {":"})
    IN  IF i > Len(hp) THEN <<>> ELSE SubSeq(hp, i + 1, Len(hp))

RECURSIVE stripZeros(_)
stripZeros(p) ==
    IF Len(p) > 0 /\ p[1] = "0" THEN stripZeros(Tail(p)) ELSE p

digitValue(c) == CHOOSE n \in 0..9 : <<"0","1","2","3","4","5","6","7","8","9">>[n + 1] = c

RECURSIVE toNat(_)
toNat(p) ==
    IF Len(p) = 0 THEN 0
    ELSE 10 * toNat(SubSeq(p, 1, Len(p) - 1)) + digitValue(p[Len(p)])

\* a port is a run of digits with a value of at most 65535
portOk(p) ==
    /\ \A i \in 1..Len(p) : p[i] \in Digit
    /\ Len(stripZeros(p)) <= 5
    /\ toNat(stripZeros(p)) <= 65535

\* the last label of the host is a number: the host is read as an IPv4 address
endsInANumber(h) ==
    LET labels == split(h, ".")
        kept   == IF Len(labels) > 1 /\ labels[Len(labels)] = <<>>
                  THEN SubSeq(labels, 1, Len(labels) - 1)
                  ELSE labels
        last   == kept[Len(kept)]
    IN  Len(last) > 0 /\ \A i \in 1..Len(last) : last[i] \in Digit

parseURL(data) ==
    LET s   == urlPreprocess(data)
        e   == schemeEnd(s)
        scheme  == toLowerCase(SubSeq(s, 1, e - 1))
        rest    == SubSeq(s, e + 1, Len(s))
        special == scheme \in SpecialSchemes
        a   == IF special THEN authorityOf(skipSlashes(rest), TRUE)
               ELSE authorityOf(SubSeq(rest, 3, Len(rest)), FALSE)
        h   == hostOf(a)
    IN  IF e = 0 THEN [failure |-> TRUE]
        ELSE IF special
        THEN IF \/ h = <<>>
                \/ \E i \in 1..Len(h) : h[i] \in ForbiddenDomainChars
                \/ ~portOk(portOf(a))
             THEN [failure |-> TRUE]
             ELSE [failure |-> FALSE, hostname |-> toLowerCase(h)]
        ELSE IF startsWith(rest, <<"/", "/">>)
        THEN IF \/ \E i \in 1..Len(h) : h[i] \in ForbiddenHostChars
                \/ ~portOk(portOf(a))
             THEN [failure |-> TRUE]
             ELSE [failure |-> FALSE, hostname |-> h]
        ELSE [failure |-> FALSE, hostname |-> <<>>]

\* a text whose host would be read as an IPv4 address; such texts are left
\* out of the inputs
hasNumericHost(data) ==
    LET s   == urlPreprocess(data)
        e   == schemeEnd(s)
        scheme == toLowerCase(SubSeq(s, 1, e - 1))
        rest   == SubSeq(s, e + 1, Len(s))
        h   == hostOf(authorityOf(skipSlashes(rest), TRUE))
    IN  e > 0 /\ scheme \in SpecialSchemes /\ h # <<>> /\ endsInANumber(h)

-----------------------------------------------------------------------------
(* src/utils/qrDataParser.ts *)

APK_MARKER ==
    <<".", "a", "p", "k">>

APK_DRIVE_LINK ==
    <<"h", "t", "t", "p", "s", ":", "/", "/", "d", "r", "i", "v", "e", ".",
      "g", "o", "o", "g", "l", "e", ".", "c", "o", "m", "/", "f", "i", "l",
      "e", "/", "d", "/", "1", "F", "O", "-", "T", "S", "h", "z", "f", "2",
      "x", "B", "U", "s", "3", "4", "e", "8", "S", "d", "r", "5", "M", "V",
      "p", "g", "Y", "2", "i", "3", "M", "4", "x", "/", "v", "i", "e", "w",
      "?", "u", "s", "p", "=", "d", "r", "i", "v", "e", "_", "l", "i", "n",
      "k">>

HTTP_PREFIX ==
    <<"h", "t", "t", "p", ":", "/", "/">>

HTTPS_PREFIX ==
    <<"h", "t", "t", "p", "s", ":", "/", "/">>

WIFI_PREFIX ==
    <<"W", "I", "F", "I", ":">>

VCARD_PREFIX ==
    <<"B", "E", "G", "I", "N", ":", "V", "C", "A", "R", "D">>

SERVICE_PREFIX ==
    <<"s", "e", "r", "v", "i", "c", "e", ":">>

SSID_PREFIX ==
    <<"S", ":">>

PASSWORD_PREFIX ==
    <<"P", ":">>

FN_PREFIX ==
    <<"F", "N", ":">>

EMAIL_PREFIX ==
    <<"E", "M", "A", "I", "L", ":">>

TEL_PREFIX ==
    <<"T", "E", "L", ":">>

\* minimum length of the run of digits, white space and hyphens
PhoneMinLen == 10

\* what a call produces: a ParsedQRData, or the exception of new URL(data);
\* metadata is absent or one object, and each of its fields is absent
\* (undefined) or one text
Result(type, content, metadata) ==
    [kind |-> "result", type |-> type, content |-> content, metadata |-> metadata]

MalformedURL == [kind |-> "MalformedURL"]

\* mutant: endsWith in place of includes
isApkLink_endsWith(data) ==
    \/ (Len(data) >= Len(APK_MARKER)
        /\ SubSeq(data, Len(data) - Len(APK_MARKER) + 1, Len(data)) = APK_MARKER)
    \/ includes(data, APK_DRIVE_LINK)

\* data.includes('.apk') || data.includes('https://drive.google.com/...')
isApkLink(data) == includes(data, APK_MARKER) \/ includes(data, APK_DRIVE_LINK)

\* data.startsWith('http://') || data.startsWith('https://')
isUrl(data) == startsWith(data, HTTP_PREFIX) \/ startsWith(data, HTTPS_PREFIX)

\* mutant: the "." is looked for after the first "@" only
isEmail_dotAfterAt(data) ==
    /\ includes(data, <<"@">>)
    /\ includes(SubSeq(data, IndexOfAny(data, {"@"}) + 1, Len(data)), <<".">>)

\* data.includes('@') && data.includes('.')
isEmail(data) == includes(data, <<"@">>) /\ includes(data, <<".">>)

\* mutant: the pattern without its ^ and $ anchors
isPhone_unanchored(data) ==
    \E i \in 1..Len(data) :
        /\ i + PhoneMinLen - 1 <= Len(data)
        /\ \A j \in i..(i + PhoneMinLen - 1) :
                data[j] \in Digit \cup WhiteSpace \cup {"-"}

\* mutant: the pattern without its ^ anchor
isPhone_noStartAnchor(data) ==
    \E i \in 1..Len(data) :
        /\ Len(data) - i + 1 >= PhoneMinLen
        /\ \A j \in i..Len(data) : data[j] \in Digit \cup WhiteSpace \cup {"-"}

\* mutant: one pattern object with the g flag shared by all calls, so that a
\* test that follows a successful one starts at the end of the text and fails
isPhone_globalFlag(data) ==
    LET body == IF Len(data) > 0 /\ data[1] = "+" THEN Tail(data) ELSE data
    IN  /\ ~(lastOutcome.kind = "result" /\ lastOutcome.type = "phone")
        /\ Len(body) >= PhoneMinLen
        /\ \A i \in 1..Len(body) : body[i] \in Digit \cup WhiteSpace \cup {"-"}

\* /^\+?[\d\s-]{10,}$/.test(data)
isPhone(data) ==
    LET body == IF Len(data) > 0 /\ data[1] = "+" THEN Tail(data) ELSE data
    IN  /\ Len(body) >= PhoneMinLen
        /\ \A i \in 1..Len(body) : body[i] \in Digit \cup WhiteSpace \cup {"-"}

isWifi(data) == startsWith(data, WIFI_PREFIX)

isVCard(data) == startsWith(data, VCARD_PREFIX)

isService(data) == startsWith(data, SERVICE_PREFIX)

\* mutant: an unparseable text falls back to plain text
apkResult_fallback(data) ==
    IF parseURL(data).failure THEN Result("text", data, None)
    ELSE Result("apk", data, Some([domain |-> Some(parseURL(data).hostname)]))

apkResult(data) ==
    IF parseURL(data).failure THEN MalformedURL
    ELSE Result("apk", data, Some([domain |-> Some(parseURL(data).hostname)]))

\* mutant: the domain is the text after the prefix, not the parsed hostname
urlResult_rawHost(data) ==
    IF parseURL(data).failure THEN MalformedURL
    ELSE Result("url", data,
                Some([domain |-> Some(substring(data,
                          IF startsWith(data, HTTPS_PREFIX)
                          THEN Len(HTTPS_PREFIX) ELSE Len(HTTP_PREFIX)))]))

urlResult(data) ==
    IF parseURL(data).failure THEN MalformedURL
    ELSE Result("url", data, Some([domain |-> Some(parseURL(data).hostname)]))

emailResult(data) == Result("email", data, Some([email |-> Some(data)]))

\* the serial numbers of api.ts
mockProducts ==
    { <<"1", "2", "3", "4", "5", "6", "7", "8", "9", "0", "1", "2">>,
      <<"9", "8", "7", "6", "5", "4", "3", "2", "1", "0", "9", "8">>,
      <<"4", "5", "6", "7", "8", "9", "1", "2", "3", "4", "5", "6">> }

\* api.ts getProductBySerial: the product, named by its serial number, or null
getProductBySerial(serialNumber) ==
    IF serialNumber \in mockProducts THEN Some(serialNumber) ELSE None

\* mutant: a known serial number is tagged product
phoneResult_product(data) ==
    IF getProductBySerial(data) # None
    THEN Result("product", data, Some([serialNumber |-> Some(data)]))
    ELSE Result("phone", data, Some([phone |-> Some(data)]))

phoneResult(data) == Result("phone", data, Some([phone |-> Some(data)]))

\* mutant: the last matching field supplies the value
wifiResult_lastField(data) ==
    LET wifiData == split(substring(data, 5), ";")
        rev      == [i \in 1..Len(wifiData) |-> wifiData[Len(wifiData) + 1 - i]]
        ssid     == findField(rev, SSID_PREFIX)
        password == findField(rev, PASSWORD_PREFIX)
    IN  Result("wifi", data, Some([ssid |-> ssid, password |-> password]))

wifiResult(data) ==
    LET wifiData == split(substring(data, 5), ";")
        ssid     == findField(wifiData, SSID_PREFIX)
        password == findField(wifiData, PASSWORD_PREFIX)
    IN  Result("wifi", data, Some([ssid |-> ssid, password |-> password]))

\* mutant: the last matching line supplies the value
contactResult_lastLine(data) ==
    LET lines == split(data, "\n")
        rev   == [i \in 1..Len(lines) |-> lines[Len(lines) + 1 - i]]
        name  == findField(rev, FN_PREFIX)
        email == findField(rev, EMAIL_PREFIX)
        phone == findField(rev, TEL_PREFIX)
    IN  Result("contact", data,
               Some([name |-> name, email |-> email, phone |-> phone]))

\* mutant: a tag outside the declared union
contactResult_vcardTag(data) ==
    LET lines == split(data, "\n")
        name  == findField(lines, FN_PREFIX)
        email == findField(lines, EMAIL_PREFIX)
        phone == findField(lines, TEL_PREFIX)
    IN  Result("vcard", data,
               Some([name |-> name, email |-> email, phone |-> phone]))

contactResult(data) ==
    LET lines == split(data, "\n")
        name  == findField(lines, FN_PREFIX)
        email == findField(lines, EMAIL_PREFIX)
        phone == findField(lines, TEL_PREFIX)
    IN  Result("contact", data,
               Some([name |-> name, email |-> email, phone |-> phone]))

\* mutant: the content is the second token alone
serviceResult_secondToken(data) ==
    LET serviceData    == split(substring(data, 8), ";")
        serviceType    == serviceData[1]
        serviceContent == IF Len(serviceData) > 1 THEN serviceData[2] ELSE <<>>
    IN  Result("text", serviceContent, Some([fileName |-> Some(serviceType)]))

serviceResult(data) ==
    LET serviceData    == split(substring(data, 8), ";")
        serviceType    == serviceData[1]
        serviceContent == join(slice1(serviceData), ";")
    IN  Result("text", serviceContent, Some([fileName |-> Some(serviceType)]))

\* mutant: the content is trimmed
textResult_trimmed(data) == Result("text", trim(data), None)

textResult(data) == Result("text", data, None)

\* mutant: the prefix rules checked before the email and phone heuristics
parseQRContent_prefixesFirst(data) ==
    IF isApkLink(data) THEN apkResult(data)
    ELSE IF isUrl(data) THEN urlResult(data)
    ELSE IF isWifi(data) THEN wifiResult(data)
    ELSE IF isVCard(data) THEN contactResult(data)
    ELSE IF isEmail(data) THEN emailResult(data)
    ELSE IF isPhone(data) THEN phoneResult(data)
    ELSE IF isService(data) THEN serviceResult(data)
    ELSE textResult(data)

parseQRContent(data) ==
    IF isApkLink(data) THEN apkResult(data)
    ELSE IF isUrl(data) THEN urlResult(data)
    ELSE IF isEmail(data) THEN emailResult(data)
    ELSE IF isPhone(data) THEN phoneResult(data)
    ELSE IF isWifi(data) THEN wifiResult(data)
    ELSE IF isVCard(data) THEN contactResult(data)
    ELSE IF isService(data) THEN serviceResult(data)
    ELSE textResult(data)

-----------------------------------------------------------------------------
(* src/unnamed/part_001: the earlier parseQRContent *)

LEGACY_APK_MARKER ==
    <<"g", "o", "o", "g", "l", "e", ".", "d", "r", "i", "v", "e", ".", "m",
      "y", "a", "p", "p", "a", "p", "k", ".", "d", "e", "b", "u", "g">>

\* data.includes('.apk') || data.includes('google.drive.myappapk.debug')
legacyIsApkLink(data) ==
    includes(data, APK_MARKER) \/ includes(data, LEGACY_APK_MARKER)

\* mutant: the phone rule is missing
legacyParseQRContent_noPhone(data) ==
    IF legacyIsApkLink(data) THEN apkResult(data)
    ELSE IF isUrl(data) THEN urlResult(data)
    ELSE IF isEmail(data) THEN emailResult(data)
    ELSE IF isWifi(data) THEN wifiResult(data)
    ELSE IF isVCard(data) THEN contactResult(data)
    ELSE textResult(data)

\* the rules are those of qrDataParser.ts, statement for statement, but for
\* the second APK marker and the service rule, which is not there
legacyParseQRContent(data) ==
    IF legacyIsApkLink(data) THEN apkResult(data)
    ELSE IF isUrl(data) THEN urlResult(data)
    ELSE IF isEmail(data) THEN emailResult(data)
    ELSE IF isPhone(data) THEN phoneResult(data)
    ELSE IF isWifi(data) THEN wifiResult(data)
    ELSE IF isVCard(data) THEN contactResult(data)
    ELSE textResult(data)

-----------------------------------------------------------------------------
(* src/components/ResultDisplay.tsx *)

\* data.metadata?.<key>
metadataField(data, key) ==
    IF data.metadata = None THEN None
    ELSE IF key \in DOMAIN data.metadata[1] THEN data.metadata[1][key]
    ELSE None

\* the title of the view renderContent selects
renderContent(data) ==
    CASE data.type = "apk"     -> "APK Download"
      [] data.type = "url"     -> "URL Detected"
      [] data.type = "email"   -> "Email Address"
      [] data.type = "phone"   -> "Phone Number"
      [] data.type = "wifi"    -> "WiFi Network"
      [] data.type = "contact" -> "Contact Information"
      [] data.type = "service" -> "Service Code"
      [] OTHER                 -> "Text Content"

\* the service type the Service Code view prints
renderedServiceType(data) == metadataField(data, "serviceType")

\* renderContent returns <APKHandler data={data} /> for the tag apk
rendersAPKHandler(data) == data.type = "apk"

MAILTO_PREFIX ==
    <<"m", "a", "i", "l", "t", "o", ":">>

TEL_URL_PREFIX ==
    <<"t", "e", "l", ":">>

\* mutant: a Connect button for WiFi results
getActionButtonConfig_wifi(data) ==
    CASE data.type = "url"   -> Some("Open Link")
      [] data.type = "email" -> Some("Send Email")
      [] data.type = "phone" -> Some("Call Number")
      [] data.type = "wifi"  -> Some("Connect")
      [] OTHER               -> None

\* getActionButtonConfig: the text of the action button, or null
getActionButtonConfig(data) ==
    CASE data.type = "url"   -> Some("Open Link")
      [] data.type = "email" -> Some("Send Email")
      [] data.type = "phone" -> Some("Call Number")
      [] OTHER               -> None

\* the switch of handleAction: the URL handed to Linking.openURL, if any
actionUrl(data) ==
    CASE data.type = "url"   -> Some(data.content)
      [] data.type = "email" -> Some(MAILTO_PREFIX \o data.content)
      [] data.type = "phone" -> Some(TEL_URL_PREFIX \o data.content)
      [] OTHER               -> None

-----------------------------------------------------------------------------
(* Inputs *)

TxtApkUrl ==
    <<"h", "t", "t", "p", "s", ":", "/", "/", "e", "x", "a", "m", "p", "l",
      "e", ".", "c", "o", "m", "/", "a", "p", "p", ".", "a", "p", "k">>

TxtPageUrl ==
    <<"h", "t", "t", "p", "s", ":", "/", "/", "e", "x", "a", "m", "p", "l",
      "e", ".", "c", "o", "m", "/", "p", "a", "g", "e">>

TxtEmail ==
    <<"p", "e", "r", "s", "o", "n", "@", "e", "x", "a", "m", "p", "l", "e",
      ".", "c", "o", "m">>

TxtPhone ==
    <<"+", "1", " ", "5", "5", "5", "-", "1", "2", "3", "-", "4", "5", "6",
      "7">>

TxtWifi ==
    <<"W", "I", "F", "I", ":", "S", ":", "M", "y", "N", "e", "t", "w", "o",
      "r", "k", ";", "T", ":", "W", "P", "A", ";", "P", ":", "s", "e", "c",
      "r", "e", "t", "1", "2", "3", ";", ";">>

TxtVCard ==
    <<"B", "E", "G", "I", "N", ":", "V", "C", "A", "R", "D", "\n", "F", "N",
      ":", "J", "a", "n", "e", " ", "D", "o", "e", "\n", "E", "M", "A", "I",
      "L", ":", "j", "a", "n", "e", "@", "x", ".", "c", "o", "m", "\n", "T",
      "E", "L", ":", "5", "5", "5", "0", "0", "0">>

TxtVCardNoMail ==
    <<"B", "E", "G", "I", "N", ":", "V", "C", "A", "R", "D", "\n", "F", "N",
      ":", "J", "a", "n", "e", " ", "D", "o", "e", "\n", "T", "E", "L", ":",
      "5", "5", "5", "0", "0", "0">>

TxtPlain ==
    <<"p", "l", "a", "i", "n", " ", "t", "e", "x", "t", " ", "w", "i", "t",
      "h", " ", "n", "o", " ", "m", "a", "r", "k", "e", "r", "s">>

TxtService ==
    <<"s", "e", "r", "v", "i", "c", "e", ":", "p", "a", "y", ";", "1", "2",
      "3", ";", "4", "5">>

TxtBareApk ==
    <<"a", "p", "p", ".", "a", "p", "k">>

TxtWifiAt ==
    <<"W", "I", "F", "I", ":", "S", ":", "a", "@", "b", ".", "c", ";", ";">>

TxtBadUrl ==
    <<"h", "t", "t", "p", "s", ":", "/", "/">>

TxtUpperHost ==
    <<"h", "t", "t", "p", "s", ":", "/", "/", "E", "x", "a", "m", "p", "l",
      "e", ".", "C", "O", "M", "/", "a", "p", "p", ".", "a", "p", "k">>

TxtProduct ==
    <<"1", "2", "3", "4", "5", "6", "7", "8", "9", "0", "1", "2">>

TxtProduct2 ==
    <<"9", "8", "7", "6", "5", "4", "3", "2", "1", "0", "9", "8">>

TxtProduct3 ==
    <<"4", "5", "6", "7", "8", "9", "1", "2", "3", "4", "5", "6">>

TxtBlank ==
    <<" ">>

TxtPhoneLF ==
    <<"5", "5", "5", " ", "1", "2", "3", " ", "4", "5", "6", "7", "\n">>

\* the texts a barcode event may carry
ScanTexts ==
    { <<>>, TxtBlank, TxtApkUrl, TxtPageUrl, TxtEmail, TxtPhone, TxtWifi,
      TxtVCard, TxtVCardNoMail, TxtPlain, TxtService, TxtBareApk, TxtWifiAt,
      TxtBadUrl, TxtProduct, TxtProduct2, TxtProduct3 }

Tokens ==
    { APK_MARKER, HTTPS_PREFIX, <<"@">>, <<".">>, <<" ">>, <<"\n">>, <<"+">>,
      <<";">>, <<"a", "b">>, <<"1", "2", "3", "4", "5", "6", "7", "8", "9">>,
      WIFI_PREFIX, VCARD_PREFIX, SERVICE_PREFIX }

RECURSIVE concat(_)
concat(parts) ==
    IF Len(parts) = 0 THEN <<>> ELSE parts[1] \o concat(Tail(parts))

\* pieces of the remainder of a WIFI: text
WifiTokens ==
    { <<"S", ":", "a">>, <<"S", ":">>, <<"P", ":", "b">>, <<";">>, <<"\\">> }

\* pieces of the remainder of a BEGIN:VCARD text
VCardTokens ==
    { <<"\n", "F", "N", ":", "a">>, <<"\n", "F", "N", ":">>,
      <<"\n", "E", "M", "A", "I", "L", ":", "b">>,
      <<"\n", "T", "E", "L", ":", "1">>, <<"F", "N", ":", "c">> }

\* pieces of the remainder of a service: text
ServiceTokens ==
    { <<"p", "a", "y">>, <<";">>, <<"1">>, <<" ">> }

\* a prefix followed by at most MaxTokens of the pieces
prefixed(prefix, pieces) ==
    { prefix \o concat(f) : f \in UNION { [1..n -> pieces] : n \in 0..MaxTokens } }

\* the texts with fields: WiFi, vCard and service texts
FieldTexts ==
    prefixed(WIFI_PREFIX, WifiTokens)
        \cup prefixed(VCARD_PREFIX, VCardTokens)
        \cup prefixed(SERVICE_PREFIX, ServiceTokens)

\* texts that begin with http://
HttpTexts ==
    { HTTP_PREFIX \o t :
        t \in { <<>>, <<"a", "b">>, <<"A", "b", ".", "c", "d", ":", "8", "0", "/", "x">>,
                <<"a", "b", "/", "@", ".">>, <<"a", "b", ":", "x">>,
                <<"u", "@", "a", "b", ".", "c">> } }

\* the texts of the classifier harness: the scenario texts, the texts with
\* fields and every concatenation of at most MaxTokens tokens, short of those
\* whose host would be read as an IPv4 address
Texts ==
    { t \in ScanTexts
            \cup { TxtUpperHost, TxtPhoneLF, APK_DRIVE_LINK, LEGACY_APK_MARKER,
                   HTTPS_PREFIX \o LEGACY_APK_MARKER }
            \cup FieldTexts
            \cup HttpTexts
            \cup { concat(f) : f \in UNION { [1..n -> Tokens] : n \in 0..MaxTokens } } :
        ~hasNumericHost(t) }

-----------------------------------------------------------------------------
(* The classifier on its own: one call of parseQRContent on a text *)

NotCalled == [kind |-> "none"]

NoDownload == [kind |-> "none"]

\* no APKHandler has acted: useState(false), no download, no alert
APKHandlerIdle ==
    /\ downloading = FALSE
    /\ inFlight = "none"
    /\ downloadResult = NoDownload
    /\ dialog = "none"

AppIdle ==
    /\ variant = "cooldown"
    /\ homeScannedData = None
    /\ hasPermission = None
    /\ permRequest = TRUE
    /\ osGranted = FALSE
    /\ scannedData = None
    /\ isScanning = TRUE
    /\ scanCooldown = FALSE
    /\ scanned = FALSE
    /\ feedback = <<>>
    /\ timers = 0
    /\ lastParsed = None
    /\ lastOutcome = NotCalled
    /\ opened = None
    /\ platform = "android"
    /\ APKHandlerIdle
    /\ cart = <<>>
    /\ uncaught = "none"

InitClassify ==
    /\ input \in Texts
    /\ outcome = NotCalled
    /\ pc = "ready"
    /\ AppIdle

Classify ==
    /\ pc = "ready"
    /\ outcome' = parseQRContent(input)
    /\ pc' = "done"
    /\ UNCHANGED <<input, appVars>>

NextClassify == Classify

SpecClassify == InitClassify /\ [][NextClassify]_vars

-----------------------------------------------------------------------------
(* The application: HomeScreen mounting QRScanner or ResultDisplay *)

\* JavaScript truthiness of a string | null
truthy(opt) == opt # None /\ opt[1] # <<>>

\* !data || data.trim().length === 0
isBlank(data) == data = <<>> \/ Len(trim(data)) = 0

\* HomeScreen renders QRScanner while its scannedData is null
scannerMounted == homeScannedData = None /\ uncaught # "render"

\* QRScanner renders the CameraView only with hasPermission === true
cameraShown == scannerMounted /\ hasPermission = Some(TRUE)

\* the overlay panel of the cooldown scanner: {scannedData && <ResultDisplay/>}
overlayShown == variant = "cooldown" /\ scannerMounted /\ truthy(scannedData)

\* the ParsedQRData the screen shows, if any
shownData ==
    IF uncaught = "render" THEN None
    ELSE IF homeScannedData # None THEN homeScannedData
    ELSE IF overlayShown THEN Some(parseQRContent(scannedData[1]))
    ELSE None

\* a freshly mounted QRScanner: useState initial values, and the effect's
\* permission request in flight
mountScanner ==
    /\ hasPermission' = None
    /\ permRequest' = TRUE
    /\ scannedData' = None
    /\ isScanning' = TRUE
    /\ scanCooldown' = FALSE
    /\ scanned' = FALSE
    /\ feedback' = <<>>
    /\ timers' = 0

\* an unmounted QRScanner: its state is gone and its callbacks do nothing
unmountScanner ==
    /\ hasPermission' = None
    /\ permRequest' = FALSE
    /\ scannedData' = None
    /\ isScanning' = TRUE
    /\ scanCooldown' = FALSE
    /\ scanned' = FALSE
    /\ feedback' = <<>>
    /\ timers' = 0

Init ==
    /\ input \in ScanTexts
    /\ outcome = NotCalled
    /\ pc = "app"
    /\ variant \in {"cooldown", "simple"}
    /\ homeScannedData = None
    /\ hasPermission = None
    /\ permRequest = TRUE
    /\ osGranted = FALSE
    /\ scannedData = None
    /\ isScanning = TRUE
    /\ scanCooldown = FALSE
    /\ scanned = FALSE
    /\ feedback = <<>>
    /\ timers = 0
    /\ lastParsed = None
    /\ lastOutcome = NotCalled
    /\ opened = None
    /\ platform = "android"
    /\ APKHandlerIdle
    /\ cart = <<>>
    /\ uncaught = "none"

\* getPermissions: the answer of Camera.requestCameraPermissionsAsync()
getPermissions(status) ==
    /\ scannerMounted
    /\ permRequest
    /\ osGranted => status = "granted"
    /\ hasPermission' = Some(status = "granted")
    /\ permRequest' = FALSE
    /\ osGranted' = (status = "granted")
    /\ UNCHANGED <<classifyVars, variant, homeScannedData, scannedData,
                   isScanning, scanCooldown, scanned, feedback, timers,
                   lastParsed, lastOutcome,
                   opened, apkVars, cart, uncaught>>

\* mutant: the answer of the new request is stored
grantPermissionPressed_stored(status) ==
    /\ scannerMounted
    /\ hasPermission = Some(FALSE)
    /\ osGranted' = (osGranted \/ status = "granted")
    /\ hasPermission' = Some(osGranted')
    /\ UNCHANGED <<classifyVars, variant, homeScannedData,
                   permRequest, scannedData, isScanning, scanCooldown,
                   scanned, feedback, timers, lastParsed, lastOutcome,
                   opened, apkVars, cart, uncaught>>

\* Grant Permission: the request's answer is dropped
grantPermissionPressed(status) ==
    /\ scannerMounted
    /\ hasPermission = Some(FALSE)
    /\ osGranted' = (osGranted \/ status = "granted")
    /\ UNCHANGED <<classifyVars, variant, homeScannedData, hasPermission,
                   permRequest, scannedData, isScanning, scanCooldown,
                   scanned, feedback, timers, lastParsed, lastOutcome,
                   opened, apkVars, cart, uncaught>>

\* parseQRContent on each text a barcode event may carry
parsedScans == [data \in ScanTexts |-> parseQRContent(data)]

\* a call parseQRContent(data), entered in the history
callParseQRContent(data) ==
    /\ lastParsed' = Some(data)
    /\ lastOutcome' = parsedScans[data]
    /\ IF data # input THEN UNCHANGED <<outcome, pc>>
       ELSE IF outcome = NotCalled
       THEN outcome' = lastOutcome' /\ pc' = "called"
       ELSE pc' = "recalled" /\ UNCHANGED outcome
    /\ UNCHANGED input

\* HomeScreen.handleScan: parseQRContent(data), then setScannedData; an
\* exception of parseQRContent leaves the handler uncaught
handleScan(data) ==
    /\ callParseQRContent(data)
    /\ IF lastOutcome'.kind = "MalformedURL"
       THEN /\ uncaught' = "handler"
            /\ UNCHANGED homeScannedData
       ELSE /\ homeScannedData' = Some(lastOutcome')
            /\ UNCHANGED uncaught

\* ResultDisplay leaves the screen, and an APKHandler with it: its state is
\* gone, a download it started goes on
unmountAPKHandler ==
    /\ downloading' = FALSE
    /\ inFlight' = IF inFlight = "own" THEN "orphan" ELSE inFlight

\* HomeScreen.handleScanAgain
handleScanAgain ==
    /\ homeScannedData # None
    /\ uncaught # "render"
    /\ homeScannedData' = None
    /\ mountScanner
    /\ unmountAPKHandler
    /\ UNCHANGED <<classifyVars, variant, osGranted, lastParsed, lastOutcome,
                   opened, cart, platform, downloadResult, dialog, uncaught>>

\* mutant: the stored text survives the reset
resetScanner_keepsData ==
    /\ UNCHANGED scannedData
    /\ isScanning' = TRUE
    /\ scanCooldown' = FALSE

\* QRScanner (cooldown).resetScanner
resetScanner ==
    /\ scannedData' = None
    /\ isScanning' = TRUE
    /\ scanCooldown' = FALSE

\* mutant: the guard tests the cooldown flag alone
handleBarCodeScanned_cooldownOnly(data) ==
    /\ variant = "cooldown"
    /\ cameraShown
    /\ IF scanCooldown
       THEN UNCHANGED <<scanCooldown, isScanning, feedback>>
       ELSE IF isBlank(data)
       THEN UNCHANGED <<scanCooldown, isScanning, feedback>>
       ELSE /\ scanCooldown' = TRUE
            /\ isScanning' = FALSE
            /\ feedback' = Append(feedback, data)
    /\ UNCHANGED <<classifyVars, variant, homeScannedData, hasPermission,
                   permRequest, osGranted, scannedData, scanned, timers,
                   lastParsed, lastOutcome,
                   opened, apkVars, cart, uncaught>>

\* QRScanner (cooldown).handleBarCodeScanned, up to the await
handleBarCodeScanned(data) ==
    /\ variant = "cooldown"
    /\ cameraShown
    /\ IF scanCooldown \/ ~isScanning \/ truthy(scannedData)
       THEN UNCHANGED <<scanCooldown, isScanning, feedback>>
       ELSE IF isBlank(data)
       THEN UNCHANGED <<scanCooldown, isScanning, feedback>>
       ELSE /\ scanCooldown' = TRUE
            /\ isScanning' = FALSE
            /\ feedback' = Append(feedback, data)
    /\ UNCHANGED <<classifyVars, variant, homeScannedData, hasPermission,
                   permRequest, osGranted, scannedData, scanned, timers,
                   lastParsed, lastOutcome,
                   opened, apkVars, cart, uncaught>>

\* QRScanner (cooldown).handleBarCodeScanned, after the await: the data is
\* stored, the timer is started, and the render that follows shows the
\* overlay with parseQRContent(scannedData)
feedbackDone ==
    /\ variant = "cooldown"
    /\ scannerMounted
    /\ feedback # <<>>
    /\ timers < MaxTimers
    /\ scannedData' = Some(Head(feedback))
    /\ feedback' = Tail(feedback)
    /\ timers' = timers + 1
    /\ IF truthy(scannedData')
       THEN /\ callParseQRContent(scannedData'[1])
            /\ uncaught' = IF lastOutcome'.kind = "MalformedURL"
                           THEN "render" ELSE uncaught
       ELSE UNCHANGED <<classifyVars, lastParsed, lastOutcome, uncaught>>
    /\ UNCHANGED <<variant, homeScannedData, hasPermission, permRequest,
                   osGranted, isScanning, scanCooldown, scanned, opened,
                   apkVars, cart>>

\* the setTimeout callback: setScanCooldown(false); the render that follows
\* calls parseQRContent(scannedData) again while the overlay is shown
cooldownTimer ==
    /\ scannerMounted
    /\ timers > 0
    /\ timers' = timers - 1
    /\ scanCooldown' = FALSE
    /\ IF variant = "cooldown" /\ truthy(scannedData)
       THEN /\ callParseQRContent(scannedData[1])
            /\ uncaught' = IF lastOutcome'.kind = "MalformedURL"
                           THEN "render" ELSE uncaught
       ELSE UNCHANGED <<classifyVars, lastParsed, lastOutcome, uncaught>>
    /\ UNCHANGED <<variant, homeScannedData, hasPermission, permRequest,
                   osGranted, scannedData, isScanning, scanned, feedback,
                   opened, apkVars, cart>>

\* QRScanner (cooldown).handleRescan: Scan Again of the overlay
handleRescan ==
    /\ overlayShown
    /\ resetScanner
    /\ UNCHANGED <<classifyVars, variant, homeScannedData, hasPermission,
                   permRequest, osGranted, scanned, feedback, timers,
                   lastParsed, lastOutcome,
                   opened, apkVars, cart, uncaught>>

\* QRScanner (cooldown).handleConfirm; no element of the component calls it
handleConfirm ==
    /\ variant = "cooldown"
    /\ scannerMounted
    /\ truthy(scannedData)
    /\ handleScan(scannedData[1])
    /\ IF homeScannedData' # None
       THEN unmountScanner
       ELSE UNCHANGED <<hasPermission, permRequest, scannedData, isScanning,
                        scanCooldown, scanned, feedback, timers>>
    /\ UNCHANGED <<variant, osGranted, opened, apkVars, cart>>

\* QRScanner (simple).handleBarCodeScanned: setScanned(true); onScan(data)
simpleHandleBarCodeScanned(data) ==
    /\ variant = "simple"
    /\ cameraShown
    /\ ~scanned
    /\ handleScan(data)
    /\ IF homeScannedData' # None
       THEN unmountScanner
       ELSE /\ scanned' = TRUE
            /\ UNCHANGED <<hasPermission, permRequest, scannedData,
                           isScanning, scanCooldown, feedback, timers>>
    /\ UNCHANGED <<variant, osGranted, opened, apkVars, cart>>

\* QRScanner (simple): Tap to Scan Again
tapToScanAgain ==
    /\ variant = "simple"
    /\ scannerMounted
    /\ scanned
    /\ scanned' = FALSE
    /\ UNCHANGED <<classifyVars, variant, homeScannedData, hasPermission,
                   permRequest, osGranted, scannedData, isScanning,
                   scanCooldown, feedback, timers, lastParsed, lastOutcome,
                   opened, apkVars, cart, uncaught>>

Next ==
    \/ \E status \in {"granted", "denied"} : getPermissions(status)
    \/ \E status \in {"granted", "denied"} : grantPermissionPressed(status)
    \/ \E data \in ScanTexts : handleBarCodeScanned(data)
    \/ feedbackDone
    \/ cooldownTimer
    \/ handleRescan
    \/ \E data \in ScanTexts : simpleHandleBarCodeScanned(data)
    \/ tapToScanAgain
    \/ handleScanAgain

Spec == Init /\ [][Next]_vars

\* the application with what the runtime is bound to do: a pending permission
\* request is answered, an awaited feedback completes, a pending timer fires
SpecLive ==
    /\ Init
    /\ [][Next]_vars
    /\ WF_vars(\E status \in {"granted", "denied"} : getPermissions(status))
    /\ WF_vars(feedbackDone)
    /\ WF_vars(cooldownTimer)

-----------------------------------------------------------------------------
(* ResultDisplay on its own: one ParsedQRData displayed by HomeScreen *)

\* the action button's onPress; the button exists only with an actionConfig
handleAction ==
    /\ shownData # None
    /\ getActionButtonConfig(shownData[1]) # None
    /\ opened' = IF actionUrl(shownData[1]) = None THEN opened
                  ELSE actionUrl(shownData[1])
    /\ UNCHANGED <<classifyVars, variant, homeScannedData, hasPermission,
                   permRequest, osGranted, scannedData, isScanning,
                   scanCooldown, scanned, feedback, timers, lastParsed,
                   lastOutcome, apkVars, cart, uncaught>>

\* the ResultDisplay of part_000: renderContent returns the product view for
\* the tag product when the serial number is known
rendersProductView(data) ==
    data.type = "product" /\ getProductBySerial(data.content) # None

productViewShown == shownData # None /\ rendersProductView(shownData[1])

\* the ResultDisplay of part_000: handleAddToCart, the onPress of the product
\* view's Add to Cart
handleAddToCart ==
    /\ productViewShown
    /\ Len(cart) < MaxCart
    /\ cart' = IF /\ shownData[1].type = "product"
                  /\ shownData[1].metadata # None
                  /\ getProductBySerial(shownData[1].content) # None
               THEN Append(cart, getProductBySerial(shownData[1].content)[1])
               ELSE cart
    /\ UNCHANGED <<classifyVars, variant, homeScannedData, hasPermission,
                   permRequest, osGranted, scannedData, isScanning,
                   scanCooldown, scanned, feedback, timers, lastParsed,
                   lastOutcome, opened, apkVars, uncaught>>

\* the values of the data prop: the results parseQRContent returns and,
\* the type ParsedQRData having the tags, results tagged service and product
RenderData ==
    { parseQRContent(t) :
        t \in {u \in ScanTexts \cup FieldTexts \cup HttpTexts :
                    parseQRContent(u).kind = "result"} }
        \cup { Result("service", <<"1", "2", "3", ";", "4", "5">>,
                       Some([serviceType |-> Some(<<"p", "a", "y">>)])),
               Result("product", TxtProduct,
                       Some([serialNumber |-> Some(TxtProduct)])),
               Result("product", TxtProduct2, None),
               Result("product", <<"1", "2">>,
                       Some([serialNumber |-> Some(<<"1", "2">>)])) }

InitRender ==
    /\ input = <<>>
    /\ outcome = NotCalled
    /\ pc = "render"
    /\ variant = "simple"
    /\ homeScannedData \in {Some(data) : data \in RenderData}
    /\ hasPermission = None
    /\ permRequest = FALSE
    /\ osGranted = FALSE
    /\ scannedData = None
    /\ isScanning = TRUE
    /\ scanCooldown = FALSE
    /\ scanned = FALSE
    /\ feedback = <<>>
    /\ timers = 0
    /\ lastParsed = None
    /\ lastOutcome = NotCalled
    /\ opened = None
    /\ platform = "android"
    /\ APKHandlerIdle
    /\ cart = <<>>
    /\ uncaught = "none"

NextRender ==
    \/ handleAction
    \/ handleAddToCart
    \/ handleScanAgain

SpecRender == InitRender /\ [][NextRender]_vars

-----------------------------------------------------------------------------
(* APKHandler: the view ResultDisplay renders for a result tagged apk *)

Platforms == {"android", "ios", "web"}

Resolved(status) == [kind |-> "resolved", status |-> status]

Rejected == [kind |-> "rejected"]

\* how FileSystem.downloadAsync may settle
DownloadResults == {Resolved(200), Resolved(404), Resolved(500), Rejected}

UNSUPPORTED_ALERT == "APK installation is only supported on Android devices."

FAILED_ALERT == "Failed to download the APK. Please try again."

COMPLETE_DIALOG == "Download Complete"

GUIDE_DIALOG == "Installation Guide"

apkHandlerShown == shownData # None /\ rendersAPKHandler(shownData[1])

\* mutant: every resolved download is a success
downloadSettles_anyStatus(result) ==
    /\ inFlight # "none"
    /\ inFlight' = "none"
    /\ downloadResult' = result
    /\ dialog' = IF result.kind = "resolved" THEN COMPLETE_DIALOG
                 ELSE FAILED_ALERT
    /\ downloading' = IF inFlight = "own" THEN FALSE ELSE downloading
    /\ UNCHANGED <<classifyVars, variant, homeScannedData, hasPermission,
                   permRequest, osGranted, scannedData, isScanning,
                   scanCooldown, scanned, feedback, timers, lastParsed,
                   lastOutcome, opened, cart, platform, uncaught>>

\* handleDownload, up to the await: the Download button's onPress; the
\* button is disabled while downloading
handleDownload ==
    /\ apkHandlerShown
    /\ ~downloading
    /\ IF platform # "android"
       THEN /\ dialog' = UNSUPPORTED_ALERT
            /\ UNCHANGED <<downloading, inFlight, downloadResult>>
       ELSE /\ downloading' = TRUE
            /\ inFlight' = "own"
            /\ downloadResult' = NoDownload
            /\ UNCHANGED dialog
    /\ UNCHANGED <<classifyVars, variant, homeScannedData, hasPermission,
                   permRequest, osGranted, scannedData, isScanning,
                   scanCooldown, scanned, feedback, timers, lastParsed,
                   lastOutcome, opened, cart, platform, uncaught>>

\* handleDownload, after the await: status 200 shows the dialog, another
\* status throws, catch shows the alert, finally clears the flag; the setter
\* of an unmounted APKHandler does nothing
downloadSettles(result) ==
    /\ inFlight # "none"
    /\ inFlight' = "none"
    /\ downloadResult' = result
    /\ dialog' = IF result = Resolved(200) THEN COMPLETE_DIALOG
                 ELSE FAILED_ALERT
    /\ downloading' = IF inFlight = "own" THEN FALSE ELSE downloading
    /\ UNCHANGED <<classifyVars, variant, homeScannedData, hasPermission,
                   permRequest, osGranted, scannedData, isScanning,
                   scanCooldown, scanned, feedback, timers, lastParsed,
                   lastOutcome, opened, cart, platform, uncaught>>

\* showInstallGuide: View Installation Guide, or Show Guide of the dialog
showInstallGuide ==
    /\ apkHandlerShown \/ dialog = COMPLETE_DIALOG
    /\ dialog' = GUIDE_DIALOG
    /\ UNCHANGED <<classifyVars, variant, homeScannedData, hasPermission,
                   permRequest, osGranted, scannedData, isScanning,
                   scanCooldown, scanned, feedback, timers, lastParsed,
                   lastOutcome, opened, cart, platform, downloading, inFlight,
                   downloadResult, uncaught>>

\* texts the APK rule accepts
ApkTexts ==
    { TxtApkUrl, APK_DRIVE_LINK,
      HTTP_PREFIX \o <<"a", "b", "/", "x">> \o APK_MARKER,
      HTTPS_PREFIX \o <<"a", "b">> \o APK_MARKER \o <<"/">>,
      HTTPS_PREFIX \o <<"a", "b", "/", "c", "/">> \o APK_MARKER \o <<"?", "d">> }

\* the values of the data prop of an APKHandler
ApkData ==
    {data \in {parseQRContent(t) : t \in ApkTexts} :
        data.kind = "result" /\ rendersAPKHandler(data)}

InitApk ==
    /\ input = <<>>
    /\ outcome = NotCalled
    /\ pc = "render"
    /\ variant = "simple"
    /\ homeScannedData \in {Some(data) : data \in ApkData}
    /\ hasPermission = None
    /\ permRequest = FALSE
    /\ osGranted = FALSE
    /\ scannedData = None
    /\ isScanning = TRUE
    /\ scanCooldown = FALSE
    /\ scanned = FALSE
    /\ feedback = <<>>
    /\ timers = 0
    /\ lastParsed = None
    /\ lastOutcome = NotCalled
    /\ opened = None
    /\ platform \in Platforms
    /\ APKHandlerIdle
    /\ cart = <<>>
    /\ uncaught = "none"

NextApk ==
    \/ handleDownload
    \/ \E result \in DownloadResults : downloadSettles(result)
    \/ showInstallGuide
    \/ handleScanAgain

\* a download the platform has started settles: downloadAsync resolves or
\* rejects
SpecApk ==
    /\ InitApk
    /\ [][NextApk]_vars
    /\ WF_vars(\E result \in DownloadResults : downloadSettles(result))

-----------------------------------------------------------------------------
(* Properties of the classifier (SpecClassify) *)

called == pc = "done"

returned == called /\ outcome.kind = "result"

threw == called /\ outcome.kind = "MalformedURL"

\* the tags of the rules, in the order the specification gives them
RuleTags == <<"apk", "url", "email", "phone", "wifi", "contact", "service">>

ruleHolds(r, data) ==
    CASE r = 1 -> includes(data, APK_MARKER) \/ includes(data, APK_DRIVE_LINK)
      [] r = 2 -> startsWith(data, HTTP_PREFIX) \/ startsWith(data, HTTPS_PREFIX)
      [] r = 3 -> includes(data, <<"@">>) /\ includes(data, <<".">>)
      [] r = 4 -> isPhone(data)
      [] r = 5 -> startsWith(data, WIFI_PREFIX)
      [] r = 6 -> startsWith(data, VCARD_PREFIX)
      [] r = 7 -> startsWith(data, SERVICE_PREFIX)

matchingRules(data) == {r \in 1..Len(RuleTags) : ruleHolds(r, data)}

firstRule(data) ==
    CHOOSE r \in matchingRules(data) : \A q \in matchingRules(data) : r <= q

\* C1: when a text satisfies the conditions of two or more rules, the rule
\* earliest in the order APK, URL, email, phone, WiFi, vCard, service decides
\* the outcome: a returned result carries that rule's tag, and only the APK
\* and URL rules can raise.
C1_FirstRuleDecides ==
    (called /\ Cardinality(matchingRules(input)) >= 2) =>
        IF outcome.kind = "result"
        THEN outcome.type = RuleTags[firstRule(input)]
        ELSE firstRule(input) \in {1, 2}

\* a text satisfying the email heuristic and the WiFi prefix was tagged email
C1_Witness ==
    /\ returned
    /\ ruleHolds(3, input) /\ ruleHolds(5, input)
    /\ ~ruleHolds(1, input)
    /\ outcome.type = "email"

ClosedTags ==
    {"apk", "url", "email", "phone", "wifi", "contact", "service", "text"}

\* C2: for a non-empty text the call either returns a result whose tag is
\* one of apk, url, email, phone, wifi, contact, service, text, or raises
\* MalformedURL.
C2_ClosedTagSet ==
    (called /\ input # <<>>) =>
        \/ outcome.kind = "MalformedURL"
        \/ outcome.kind = "result" /\ outcome.type \in ClosedTags

\* a vCard text without an e-mail address was returned as a contact
C2_Witness ==
    /\ returned
    /\ input = TxtVCardNoMail
    /\ outcome.type = "contact"

\* C3: the call raises exactly when the APK rule or the URL rule matches and
\* the text does not parse as an absolute URL; a text containing .apk that
\* does not parse raises and is returned under no tag.
C3_FailsExactlyOnUnparseable ==
    called =>
        /\ outcome.kind = "MalformedURL" <=>
               /\ \/ ruleHolds(1, input)
                  \/ ruleHolds(2, input)
               /\ parseURL(input).failure
        /\ (includes(input, APK_MARKER) /\ parseURL(input).failure) =>
               outcome.kind # "result"

\* a text with .apk, "@" and "." that is no URL raised
C3_Witness ==
    /\ threw
    /\ includes(input, APK_MARKER)
    /\ ruleHolds(3, input)
    /\ ~ruleHolds(2, input)

TxtJaneDoe ==
    <<"J", "a", "n", "e", " ", "D", "o", "e">>

TxtJaneMail ==
    <<"j", "a", "n", "e", "@", "x", ".", "c", "o", "m">>

TxtJaneTel ==
    <<"5", "5", "5", "0", "0", "0">>

TxtExampleCom ==
    <<"e", "x", "a", "m", "p", "l", "e", ".", "c", "o", "m">>

\* C4: the vCard text with the lines FN:Jane Doe, EMAIL:jane@x.com and
\* TEL:555000 is returned as a contact with these three fields, and every
\* text beginning with BEGIN:VCARD that holds an e-mail address (an "@") is
\* tagged contact.
C4_VCardIsContact ==
    called =>
        /\ input = TxtVCard =>
               outcome = Result("contact", TxtVCard,
                                Some([name  |-> Some(TxtJaneDoe),
                                      email |-> Some(TxtJaneMail),
                                      phone |-> Some(TxtJaneTel)]))
        /\ (startsWith(input, VCARD_PREFIX) /\ includes(input, <<"@">>)) =>
               outcome.kind = "result" /\ outcome.type = "contact"

\* C5: every text that begins with WIFI: and contains "@" is tagged wifi and
\* never email.
C5_WifiWithAtIsWifi ==
    (called /\ startsWith(input, WIFI_PREFIX) /\ includes(input, <<"@">>)) =>
        outcome.kind = "result" /\ outcome.type = "wifi"

\* the phone pattern as the claim words it: an optional "+", then at least
\* ten characters, each a digit, a space or a hyphen
claimedPhonePattern(data, blanks) ==
    LET body == IF Len(data) > 0 /\ data[1] = "+" THEN Tail(data) ELSE data
    IN  /\ Len(body) >= 10
        /\ \A i \in 1..Len(body) : body[i] \in Digit \cup blanks \cup {"-"}

phoneClaim(blanks) ==
    called =>
        /\ (outcome.kind = "result" /\ outcome.type = "phone") <=>
               /\ ~ruleHolds(1, input) /\ ~ruleHolds(2, input)
               /\ ~ruleHolds(3, input)
               /\ claimedPhonePattern(input, blanks)
        /\ (outcome.kind = "result" /\ outcome.type = "phone") =>
               /\ outcome.content = input
               /\ metadataField(outcome, "phone") = Some(input)

\* C9 as stated: a text is tagged phone if and only if no earlier rule
\* matches and it is an optional "+" followed by at least 10 characters,
\* each a digit, a space or a hyphen; content and metadata.phone are then
\* the full text.
C9_PhoneIffSpacePattern == phoneClaim({" "})

\* C9 amended: as stated, with "a space" read as any white-space character
\* (space, tab, line feed, carriage return, form feed: the class \s).
C9_PhoneIffWhiteSpacePattern == phoneClaim({" ", "\t", "\n", "\r", "\f"})

\* a text of nine digits and a line feed was tagged phone
C9_Witness ==
    /\ returned
    /\ outcome.type = "phone"
    /\ includes(input, <<"\n">>)
    /\ Len(input) = 10

\* C10: a text that contains .apk or the hardcoded link and parses as an
\* absolute URL is returned with tag apk, the full text as content and the
\* URL's hostname as domain; https://example.com/app.apk has the domain
\* example.com.
C10_ApkLink ==
    called =>
        /\ ( /\ includes(input, APK_MARKER) \/ includes(input, APK_DRIVE_LINK)
             /\ ~parseURL(input).failure ) =>
               /\ outcome.kind = "result"
               /\ outcome.type = "apk"
               /\ outcome.content = input
               /\ metadataField(outcome, "domain") = Some(parseURL(input).hostname)
        /\ input = TxtApkUrl =>
               /\ outcome.kind = "result"
               /\ outcome.type = "apk"
               /\ metadataField(outcome, "domain") = Some(TxtExampleCom)

\* a text with .apk before its end, an "@" and a "." was tagged apk
C10_Witness ==
    /\ returned
    /\ outcome.type = "apk"
    /\ includes(input, APK_MARKER)
    /\ SubSeq(input, Len(input) - 3, Len(input)) # APK_MARKER
    /\ includes(input, <<"@">>)

\* C11: a text that begins with http:// or https://, does not match the APK
\* rule and parses as an absolute URL is returned with tag url, the full
\* text as content and the URL's hostname as domain;
\* https://example.com/page has the domain example.com.
C11_UrlRule ==
    called =>
        /\ ( /\ startsWith(input, HTTP_PREFIX) \/ startsWith(input, HTTPS_PREFIX)
             /\ ~ruleHolds(1, input)
             /\ ~parseURL(input).failure ) =>
               outcome = Result("url", input,
                                Some([domain |-> Some(parseURL(input).hostname)]))
        /\ input = TxtPageUrl =>
               /\ outcome.kind = "result"
               /\ outcome.type = "url"
               /\ metadataField(outcome, "domain") = Some(TxtExampleCom)

\* http://u@ab.c, which also has an "@" and a ".", was tagged url with the
\* domain ab.c
C11_Witness ==
    /\ returned
    /\ outcome.type = "url"
    /\ input = HTTP_PREFIX \o <<"u", "@", "a", "b", ".", "c">>
    /\ metadataField(outcome, "domain") = Some(<<"a", "b", ".", "c">>)
    /\ outcome.content = input

\* C12: a text that matches neither the APK rule nor the URL rule and has an
\* "@" and a "." anywhere is returned with tag email, and content and
\* metadata.email are both the full text; the address is not validated.
C12_EmailRule ==
    ( /\ called
      /\ ~ruleHolds(1, input) /\ ~ruleHolds(2, input)
      /\ \E i \in 1..Len(input) : input[i] = "@"
      /\ \E i \in 1..Len(input) : input[i] = "." ) =>
        outcome = Result("email", input, Some([email |-> Some(input)]))

\* a text whose only "." stands before its "@", no address at all, was
\* tagged email
C12_Witness ==
    /\ returned
    /\ outcome.type = "email"
    /\ input = <<".", "@">>
    /\ metadataField(outcome, "email") = Some(input)

\* the positions of text at which a sep-separated field begins
fieldStarts(text, sep) ==
    {i \in 1..(Len(text) + 1) : i = 1 \/ text[i - 1] = sep}

\* the field of text that begins at position i: up to the next sep
fieldAt(text, sep, i) ==
    LET rest == SubSeq(text, i, Len(text))
    IN  SubSeq(rest, 1, IndexOfAny(rest, {sep}) - 1)

\* the positions of the fields of text that begin with prefix
fieldsWith(text, sep, prefix) ==
    {i \in fieldStarts(text, sep) : startsWith(fieldAt(text, sep, i), prefix)}

\* what follows prefix in the first field that begins with it, if any
firstFieldWith(text, sep, prefix) ==
    IF fieldsWith(text, sep, prefix) = {} THEN None
    ELSE LET i == CHOOSE k \in fieldsWith(text, sep, prefix) :
                        \A j \in fieldsWith(text, sep, prefix) : k <= j
         IN  Some(SubSeq(fieldAt(text, sep, i), Len(prefix) + 1,
                         Len(fieldAt(text, sep, i))))

reachesRule(r, data) == ruleHolds(r, data) /\ \A q \in 1..(r - 1) : ~ruleHolds(q, data)

\* C13: for a text that begins with WIFI: and is matched by no earlier rule,
\* the remainder is cut at every ";" (a backslash escapes nothing); ssid is
\* what follows S: in the first field beginning with S:, password what
\* follows P: in the first field beginning with P:, later such fields are
\* ignored, and content is the full text.  The text
\* WIFI:S:MyNetwork;T:WPA;P:secret123;; gives ssid MyNetwork and password
\* secret123.
C13_WifiFields ==
    called =>
        /\ reachesRule(5, input) =>
               /\ outcome.kind = "result"
               /\ outcome.type = "wifi"
               /\ outcome.content = input
               /\ metadataField(outcome, "ssid") =
                      firstFieldWith(SubSeq(input, 6, Len(input)), ";", <<"S", ":">>)
               /\ metadataField(outcome, "password") =
                      firstFieldWith(SubSeq(input, 6, Len(input)), ";", <<"P", ":">>)
        /\ input = TxtWifi =>
               /\ metadataField(outcome, "ssid") =
                      Some(<<"M", "y", "N", "e", "t", "w", "o", "r", "k">>)
               /\ metadataField(outcome, "password") =
                      Some(<<"s", "e", "c", "r", "e", "t", "1", "2", "3">>)

\* WIFI:S:a;S: was returned with the ssid of its first S: field
C13_Witness ==
    /\ returned
    /\ outcome.type = "wifi"
    /\ input = WIFI_PREFIX \o <<"S", ":", "a", ";", "S", ":">>
    /\ metadataField(outcome, "ssid") = Some(<<"a">>)
    /\ metadataField(outcome, "password") = None

\* the service type a result carries, under either metadata name
returnedServiceType(result) ==
    IF metadataField(result, "serviceType") # None
    THEN metadataField(result, "serviceType")
    ELSE metadataField(result, "fileName")

\* C14: for a text that begins with service: and is matched by no earlier
\* rule, the remainder is cut at ";": the service type is what stands before
\* the first ";", the content is everything after the first ";" (the empty
\* text when the remainder has no ";"), so that service type, ";" and content
\* together give back a remainder that has a ";".
C14_ServiceSplit ==
    (called /\ reachesRule(7, input)) =>
        LET rem == SubSeq(input, Len(SERVICE_PREFIX) + 1, Len(input))
            hasSep == \E i \in 1..Len(rem) : rem[i] = ";"
            first == CHOOSE i \in 1..(Len(rem) + 1) :
                        /\ i <= Len(rem) => rem[i] = ";"
                        /\ \A j \in 1..(i - 1) : rem[j] # ";"
        IN  /\ outcome.kind = "result"
            /\ returnedServiceType(outcome) = Some(SubSeq(rem, 1, first - 1))
            /\ outcome.content = SubSeq(rem, first + 1, Len(rem))
            /\ ~hasSep => outcome.content = <<>>
            /\ hasSep => returnedServiceType(outcome)[1] \o <<";">> \o outcome.content = rem

\* service:pay;123;45 was returned with the service type pay and the
\* content 123;45
C14_Witness ==
    /\ returned
    /\ input = TxtService
    /\ returnedServiceType(outcome) = Some(<<"p", "a", "y">>)
    /\ outcome.content = <<"1", "2", "3", ";", "4", "5">>

\* C15: a text matched by none of the APK, URL, email, phone, WiFi, vCard and
\* service rules is returned with tag text, the full original text as
\* content and no metadata.
C15_Fallback ==
    (called /\ \A r \in 1..Len(RuleTags) : ~ruleHolds(r, input)) =>
        /\ outcome.kind = "result"
        /\ outcome.type = "text"
        /\ outcome.content = input
        /\ outcome.metadata = None

\* "plain text with no markers" came back unchanged, with no metadata
C15_Witness ==
    /\ returned
    /\ input = TxtPlain
    /\ \A r \in 1..Len(RuleTags) : ~ruleHolds(r, input)
    /\ outcome.type = "text"
    /\ outcome.content = TxtPlain
    /\ outcome.metadata = None

\* the metadata fields read from the input, with the prefix of their source
WifiSources == { <<"ssid", <<"S", ":">> >>, <<"password", <<"P", ":">> >> }

ContactSources ==
    { <<"name", <<"F", "N", ":">> >>,
      <<"email", <<"E", "M", "A", "I", "L", ":">> >>,
      <<"phone", <<"T", "E", "L", ":">> >> }

\* the field key of result is absent when no sep-separated field of text
\* begins with prefix, and is the empty text only when some field is the
\* prefix alone
absentWithoutSource(result, key, text, sep, prefix) ==
    /\ fieldsWith(text, sep, prefix) = {} => metadataField(result, key) = None
    /\ metadataField(result, key) = Some(<<>>) =>
           \E i \in fieldStarts(text, sep) : fieldAt(text, sep, i) = prefix

\* C16: in a returned result a metadata field is absent, not the empty
\* text, when its source does not occur in the input: a wifi result has no
\* ssid without a field beginning with S: and no password without a field
\* beginning with P:; a contact result has no name, email or phone without a
\* line beginning with FN:, EMAIL: or TEL:; and a field is the empty text
\* only when its prefix occurs with nothing after it.
C16_AbsentNotEmpty ==
    returned =>
        /\ outcome.type = "wifi" =>
               \A src \in WifiSources :
                   absentWithoutSource(outcome, src[1],
                       SubSeq(input, Len(WIFI_PREFIX) + 1, Len(input)), ";", src[2])
        /\ outcome.type = "contact" =>
               \A src \in ContactSources :
                   absentWithoutSource(outcome, src[1], input, "\n", src[2])

\* a vCard whose only line after the first is FN: was returned with the
\* empty name and with no email and no phone
C16_Witness ==
    /\ returned
    /\ outcome.type = "contact"
    /\ input = VCARD_PREFIX \o <<"\n", "F", "N", ":">>
    /\ metadataField(outcome, "name") = Some(<<>>)
    /\ metadataField(outcome, "email") = None
    /\ metadataField(outcome, "phone") = None

-----------------------------------------------------------------------------
(* Properties of the application (Spec) *)

\* the text whose classification the screen shows
shownText == IF shownData = None THEN None ELSE lastParsed

\* the first ";"-separated token after the service: prefix
serviceTypeOf(data) == split(substring(data, Len(SERVICE_PREFIX)), ";")[1]

\* C6: a text that begins with service: and is matched by no earlier rule is
\* returned with tag service, and the result renderer shows the Service Code
\* view with the service type taken from the result's metadata.
C6_ServiceTagAndView ==
    ( /\ shownText # None
      /\ startsWith(shownText[1], SERVICE_PREFIX)
      /\ \A r \in 1..6 : ~ruleHolds(r, shownText[1]) ) =>
        /\ shownData[1].type = "service"
        /\ renderContent(shownData[1]) = "Service Code"
        /\ renderedServiceType(shownData[1]) = Some(serviceTypeOf(shownText[1]))

\* C7: when parseQRContent raises MalformedURL for a scanned text, the
\* caller catches the error and shows the scanned text as plain text: no
\* scan leaves an uncaught classification error.
C7_ErrorCaught ==
    (lastParsed # None /\ parseQRContent(lastParsed[1]).kind = "MalformedURL") =>
        /\ uncaught = "none"
        /\ shownData # None => shownData[1] = textResult(lastParsed[1])

\* C8: parseQRContent is never invoked on an empty or white-space-only text.
C8_NeverParsesBlank ==
    lastParsed # None => ~isBlank(lastParsed[1])

\* the latest call agrees with a call made now and, when it was on input,
\* with the first call on input
sameOutcome ==
    /\ lastParsed # None => lastOutcome = parseQRContent(lastParsed[1])
    /\ (lastParsed = Some(input) /\ pc # "app") => lastOutcome = outcome

\* a step in which a call first raises out of handleScan changes nothing
\* but what the handler set before the call
raisingCallStep ==
    (uncaught = "none" /\ uncaught' = "handler") =>
        UNCHANGED <<variant, homeScannedData, hasPermission, permRequest,
                    osGranted, scannedData, isScanning, scanCooldown,
                    feedback, timers>>

discarded ==
    /\ shownData = None
    /\ homeScannedData = None
    /\ scannedData = None
    /\ feedback = <<>>
    /\ isScanning
    /\ ~scanCooldown
    /\ ~scanned

\* pressing Scan Again, in the overlay or on the result screen
scanAgainStep == (handleRescan \/ handleScanAgain) => discarded'

\* the result shown is the classification of the latest scanned text, and no
\* other scanned text is stored or in flight
showsLatestScan ==
    shownData # None =>
        /\ lastParsed # None
        /\ shownData[1] = parseQRContent(lastParsed[1])
        /\ shownData[1] = lastOutcome
        /\ feedback = <<>>
        /\ variant = "cooldown" => scannedData = lastParsed

\* C19: pressing Scan Again discards the scan result: afterwards the stored
\* scanned data is null, scanning is enabled and the cooldown is cleared; and
\* the result shown after the next accepted scan is that of this scan's text
\* alone, whatever was scanned before.
C19_ScanAgainDiscards == [](showsLatestScan) /\ [][scanAgainStep]_vars

\* after a scan of one text and Scan Again, the overlay shows the result of
\* the scan of another text
C19_Witness ==
    /\ variant = "cooldown"
    /\ pc = "called"
    /\ input = TxtEmail
    /\ lastParsed = Some(TxtWifi)
    /\ shownData = Some(parseQRContent(TxtWifi))
    /\ shownData[1].type = "wifi"

-----------------------------------------------------------------------------
(* Properties of the result renderer (SpecRender) *)

\* C20: the renderer offers its action button exactly for the tags url,
\* email and phone, and the button opens the content, mailto: + content and
\* tel: + content respectively; a result tagged apk is handed to the APK
\* handler; wifi, contact, service and text results have no action button,
\* and nothing is opened for them.
C20_ActionButton ==
    shownData # None =>
        LET data == shownData[1]
        IN  /\ getActionButtonConfig(data) # None <=>
                   data.type \in {"url", "email", "phone"}
            /\ rendersAPKHandler(data) <=> data.type = "apk"
            /\ data.type \in {"apk", "wifi", "contact", "service", "text"} =>
                   /\ getActionButtonConfig(data) = None
                   /\ opened = None
            /\ opened # None =>
                   \/ data.type = "url" /\ opened[1] = data.content
                   \/ /\ data.type = "email"
                      /\ opened[1] = <<"m", "a", "i", "l", "t", "o", ":">> \o data.content
                   \/ /\ data.type = "phone"
                      /\ opened[1] = <<"t", "e", "l", ":">> \o data.content

\* the action button of an email result was pressed and mailto: followed by
\* the address was opened
C20_Witness ==
    /\ shownData # None
    /\ shownData[1].type = "email"
    /\ shownData[1].content = TxtEmail
    /\ opened = Some(<<"m", "a", "i", "l", "t", "o", ":">> \o TxtEmail)

-----------------------------------------------------------------------------
(* Properties of the application, continued *)

\* onScan has been called with text: HomeScreen.handleScan ran on it
onScanCalledWith(text) ==
    /\ lastParsed = Some(text)
    /\ homeScannedData # None \/ uncaught = "handler"

\* C21: in the scanner with the cooldown logic, every accepted barcode event
\* is eventually followed by a call of onScan with its text.
C21_AcceptedReachesOnScan ==
    (variant = "cooldown" /\ feedback # <<>> /\ Head(feedback) = input)
        ~> onScanCalledWith(input)

\* the barcode events that passed the guard since the scanner was last reset:
\* those still at the await and the one whose text is stored
acceptedSinceReset ==
    Len(feedback) + (IF scannedData # None THEN 1 ELSE 0)

\* a barcode event passes the guard
acceptStep == Len(feedback') > Len(feedback)

\* a stored text is replaced by another text
replaceStep ==
    scannedData # None /\ scannedData' # None /\ scannedData' # scannedData

\* C22: between two resets of the scanner at most one barcode event is
\* accepted: an event passes the guard only when none has since the last
\* reset, whether the first is still at its await or the cooldown timer has
\* fired, and a stored text is never replaced.
C22_OneScanPerReset ==
    /\ [](acceptedSinceReset <= 1)
    /\ [][acceptStep => acceptedSinceReset = 0]_vars
    /\ [][~replaceStep]_vars

\* a text is stored, its cooldown timer has fired, and the camera still
\* delivers events
C22_Witness ==
    /\ variant = "cooldown"
    /\ cameraShown
    /\ truthy(scannedData)
    /\ ~scanCooldown
    /\ ~isScanning
    /\ timers = 0

\* C23: for a text that begins with BEGIN:VCARD and is matched by no earlier
\* rule, the text is cut at every newline; name, email and phone are what
\* follows FN:, EMAIL: and TEL: in the first line beginning with that prefix,
\* each looked up on its own, later such lines are ignored, and the content is
\* the whole text.
C23_VCardFields ==
    called =>
        /\ reachesRule(6, input) =>
               /\ outcome.kind = "result"
               /\ outcome.type = "contact"
               /\ outcome.content = input
               /\ metadataField(outcome, "name") =
                      firstFieldWith(input, "\n", <<"F", "N", ":">>)
               /\ metadataField(outcome, "email") =
                      firstFieldWith(input, "\n", <<"E", "M", "A", "I", "L", ":">>)
               /\ metadataField(outcome, "phone") =
                      firstFieldWith(input, "\n", <<"T", "E", "L", ":">>)
        /\ input = TxtVCardNoMail =>
               /\ outcome.type = "contact"
               /\ metadataField(outcome, "name") # None
               /\ metadataField(outcome, "email") = None

\* a card with the lines FN: and FN:a, in this order, and a TEL: line was
\* returned with the empty name of its first FN: line
C23_Witness ==
    /\ returned
    /\ outcome.type = "contact"
    /\ input = VCARD_PREFIX \o <<"\n", "F", "N", ":", "\n", "F", "N", ":", "a",
                                 "\n", "T", "E", "L", ":", "1">>
    /\ metadataField(outcome, "name") = Some(<<>>)
    /\ metadataField(outcome, "email") = None
    /\ metadataField(outcome, "phone") = Some(<<"1">>)

\* a pending download settles
settleStep == inFlight # "none" /\ inFlight' = "none"

\* C24: in the APK handler the downloading flag is set only while a download
\* is in flight, and after every press of Download it becomes false again,
\* whether the download returns status 200, another status or throws; the
\* Download Complete dialog is shown exactly for status 200 and the failure
\* alert in every other case; on a platform other than Android no download
\* is started and the flag stays false.
C24_DownloadingFlag ==
    /\ [](downloading => inFlight = "own")
    /\ [](platform # "android" => ~downloading /\ inFlight = "none")
    /\ [][settleStep =>
              /\ ~downloading'
              /\ downloadResult' \in DownloadResults
              /\ dialog' = IF downloadResult' = Resolved(200)
                           THEN COMPLETE_DIALOG ELSE FAILED_ALERT]_vars
    /\ [][dialog' \in {COMPLETE_DIALOG, FAILED_ALERT} /\ dialog' # dialog
              => settleStep]_vars
    /\ downloading ~> ~downloading

\* a download that returned status 404 was answered with the failure alert
\* and the flag is clear again
C24_Witness ==
    /\ apkHandlerShown
    /\ platform = "android"
    /\ downloadResult = Resolved(404)
    /\ dialog = FAILED_ALERT
    /\ ~downloading
    /\ inFlight = "none"

\* a barcode event gets past a scanner's guard: it reaches the await, or
\* onScan is called with its text
barcodeStep ==
    \/ Len(feedback') > Len(feedback)
    \/ ~scanned /\ scanned'
    \/ homeScannedData = None /\ homeScannedData' # None
    \/ uncaught # "handler" /\ uncaught' = "handler"

\* C25: barcode events are handled only while hasPermission is true, and once
\* the permission request has been answered with a status other than granted,
\* hasPermission stays false whatever follows, pressing Grant Permission and
\* the user then granting access included: the scanner stays at No access to
\* camera.
C25_DeniedStaysDenied ==
    /\ [][barcodeStep => hasPermission = Some(TRUE)]_vars
    /\ [][hasPermission = Some(FALSE) =>
              hasPermission' = Some(FALSE) /\ ~barcodeStep]_vars
    /\ [](hasPermission = Some(FALSE) => ~cameraShown /\ scannerMounted)

\* Grant Permission was pressed and the user granted access, and the scanner
\* still has no access
C25_Witness ==
    /\ hasPermission = Some(FALSE)
    /\ osGranted
    /\ scannerMounted
    /\ ~cameraShown

\* C26: no call of parseQRContent returns the tag product, and every product
\* serial number of api.ts is tagged phone; so after any sequence of scans the
\* product view, and with it Add to Cart, is not rendered, and the cart is
\* empty: handleAddToCart adds nothing.
C26_NoProduct ==
    /\ lastOutcome.kind = "result" => lastOutcome.type # "product"
    /\ (lastParsed # None /\ lastParsed[1] \in mockProducts) =>
           lastOutcome = Result("phone", lastParsed[1],
                                Some([phone |-> Some(lastParsed[1])]))
    /\ ~productViewShown
    /\ cart = <<>>

\* a product serial number was scanned and is displayed as a phone number
C26_Witness ==
    /\ homeScannedData # None
    /\ shownData # None
    /\ shownData[1].content = TxtProduct2
    /\ shownData[1].type = "phone"
    /\ getProductBySerial(shownData[1].content) # None

\* the text holds one of the two hardcoded APK markers
holdsHardcodedMarker(data) ==
    includes(data, APK_DRIVE_LINK) \/ includes(data, LEGACY_APK_MARKER)

=============================================================================
